---- MODULE Spec2Model ----
(***************************************************************************)
(* Model of the sencillo-go NATS request dispatcher (transports/nats):     *)
(* ErrorHandler in its tracing and non-tracing variants, the header bridge *)
(* (buildQueryHeaders / GetQueryHeaders), handleRequestError, MsgID and    *)
(* the ClientError type of package errors.                                 *)
(*                                                                         *)
(* Text is modelled as a sequence of tokens.  A token is either one        *)
(* character that some conversion treats specially (the double quote, the  *)
(* backslash, "%", "+", "&", "=", ";", a hex digit, ...) or a chunk of     *)
(* ordinary characters that every conversion copies unchanged.  The empty  *)
(* string is the empty sequence.                                           *)
(***************************************************************************)
EXTENDS Integers, Sequences, FiniteSets, TLC

(***************************************************************************)
(* Bounds                                                                  *)
(***************************************************************************)
\* longest query string, in parameters, handed to the header bridge
MaxParams == 3
\* longest query string, in parameters, carried by a dispatched request
MaxDispatchParams == 1
\* the wall clock advances at most this many ticks during one dispatch
MaxClock == 2
\* most causes handed to MultipleClientErrors
MaxCauses == 2
\* most Set calls made on one carrier
MaxSets == 2
\* most values a header of the carrier starts with
MaxCarrierValues == 2
MaxHttpValues == 2
MaxHealth == 2
MaxCalls == 2

(***************************************************************************)
(* Text helpers                                                            *)
(***************************************************************************)
EmptyStr == <<>>

RECURSIVE Join(_, _)
\* strings.Join(elems, sep)
Join(elems, sep) ==
  IF Len(elems) = 0 THEN EmptyStr
  ELSE IF Len(elems) = 1 THEN elems[1]
  ELSE elems[1] \o sep \o Join(Tail(elems), sep)

\* strings.Contains(s, sub) on token sequences
Contains(s, sub) ==
  \E i \in 1..(Len(s) + 1) :
     /\ i + Len(sub) - 1 <= Len(s)
     /\ SubSeq(s, i, i + Len(sub) - 1) = sub

\* index of the first occurrence of token c in s, 0 when there is none
IndexOf(s, c) ==
  IF \E i \in 1..Len(s) : s[i] = c
  THEN CHOOSE i \in 1..Len(s) : s[i] = c /\ \A j \in 1..(i - 1) : s[j] # c
  ELSE 0

\* strings.Cut(s, sep): before, after (whole string and "" when sep is absent)
CutBefore(s, c) == IF IndexOf(s, c) = 0 THEN s ELSE SubSeq(s, 1, IndexOf(s, c) - 1)
CutAfter(s, c) == IF IndexOf(s, c) = 0 THEN EmptyStr ELSE SubSeq(s, IndexOf(s, c) + 1, Len(s))

Range(s) == {s[i] : i \in 1..Len(s)}

RECURSIVE SeqsUpTo(_, _)
\* all sequences over S of length at most n
SeqsUpTo(S, n) ==
  IF n = 0 THEN {<<>>}
  ELSE LET shorter == SeqsUpTo(S, n - 1)
       IN  shorter \cup {Append(s, x) : s \in {t \in shorter : Len(t) = n - 1}, x \in S}

(***************************************************************************)
(* fmt.Sprintf(`%q`, s): Go-quote a string                                 *)
(***************************************************************************)
DQ == "\""
BS == "\\"

\* strconv.Quote escapes the quote and the backslash; ordinary text is copied
QuoteToken(t) ==
  IF t = DQ THEN <<BS, DQ>>
  ELSE IF t = BS THEN <<BS, BS>>
  ELSE <<t>>

RECURSIVE QuoteBody(_)
QuoteBody(s) == IF Len(s) = 0 THEN EmptyStr ELSE QuoteToken(Head(s)) \o QuoteBody(Tail(s))

Quote(s) == <<DQ>> \o QuoteBody(s) \o <<DQ>>

(***************************************************************************)
(* Package errors: ClientError                                             *)
(*                                                                         *)
(* An error value is a record.  kind "nil" is the nil error, kind "error"  *)
(* is any error that does not implement the ClientError interface (its     *)
(* Error() text is .text), kind "client" is an errors.ClientError.         *)
(***************************************************************************)
NilError == [kind |-> "nil"]

\* fmt.Errorf / errors.New: an error that is not a ClientError
PlainError(t) == [kind |-> "error", text |-> t]

\* the ClientError struct literal
ClientErrorValue(status, details, detailedErrors) ==
  [kind |-> "client", Status |-> status, Details |-> details,
   DetailedErrors |-> detailedErrors]

\* v.Error() of a plain error or of a ClientError
ErrorText(e) ==
  IF e.kind = "client" THEN Join(e.Details, <<", ">>) ELSE e.text

\* A construction option (ClientErrorOpt): "none" applies no option, the
\* others are options an application can pass: one replacing the details by
\* a fixed phrase and one replacing the status.
OptKinds == {"none", "details", "status"}

ApplyOpt(ce, opt) ==
  IF opt = "details" THEN [ce EXCEPT !.Details = <<<<"bad request">>>>]
  ELSE IF opt = "status" THEN [ce EXCEPT !.Status = 404]
  ELSE ce

\* a constructor that lists the details last cause first
MultipleClientErrors_Reversed(errs, code, opt) ==
  LET errors == [i \in 1..Len(errs) |-> Quote(ErrorText(errs[Len(errs) + 1 - i]))]
      ce == ClientErrorValue(code, errors, errs)
  IN  ApplyOpt(ce, opt)

\* MultipleClientErrors: one %q-quoted detail per cause, then the options
MultipleClientErrors(errs, code, opt) ==
  LET errors == [i \in 1..Len(errs) |-> Quote(ErrorText(errs[i]))]
      ce == ClientErrorValue(code, errors, errs)
  IN  ApplyOpt(ce, opt)

NewClientError(err, code, opt) == MultipleClientErrors(<<err>>, code, opt)

\* ClientError.Body()
Body(c) == <<"{", DQ, "errors", DQ, ": [">> \o Join(c.Details, <<",">>) \o <<"]}">>

\* ClientError.Code()
Code(c) == c.Status

\* ClientError.LoggedError()
LoggedError(c) == c.DetailedErrors

\* net/http.StatusText for the codes the model uses; "" for an unknown code
StatusText(code) ==
  IF code = 400 THEN <<"Bad Request">>
  ELSE IF code = 404 THEN <<"Not Found">>
  ELSE IF code = 500 THEN <<"Internal Server Error">>
  ELSE EmptyStr

\* fmt.Sprintf("%d", code), kept as the number
CodeString(code) == code

(***************************************************************************)
(* net/url: QueryUnescape and ParseQuery, as buildQueryHeaders calls them  *)
(***************************************************************************)
HexDigits == {"0", "1", "2", "3", "4", "5", "6", "7", "8", "9",
              "a", "b", "c", "d", "e", "f", "A", "B", "C", "D", "E", "F"}

\* ishex
IsHex(c) == c \in HexDigits

\* unhex
UnHex(c) ==
  CASE c = "0" -> 0 [] c = "1" -> 1 [] c = "2" -> 2 [] c = "3" -> 3
    [] c = "4" -> 4 [] c = "5" -> 5 [] c = "6" -> 6 [] c = "7" -> 7
    [] c = "8" -> 8 [] c = "9" -> 9
    [] c \in {"a", "A"} -> 10 [] c \in {"b", "B"} -> 11
    [] c \in {"c", "C"} -> 12 [] c \in {"d", "D"} -> 13
    [] c \in {"e", "E"} -> 14 [] c \in {"f", "F"} -> 15

\* the character with byte value n; bytes the model gives no name to are
\* kept apart by their number
ByteChar(n) ==
  CASE n = 32 -> " " [] n = 37 -> "%" [] n = 38 -> "&" [] n = 43 -> "+"
    [] n = 59 -> ";" [] n = 61 -> "="
    [] n = 49 -> "1" [] n = 50 -> "2" [] n = 51 -> "3"
    [] n = 97 -> "a" [] n = 98 -> "b" [] n = 120 -> "x"
    [] OTHER -> "byte" \o ToString(n)

\* the first pass of unescape: the position of the first "%" that is not
\* followed by two hex digits, 0 when every escape is well formed
BadEscapeAt(s) ==
  LET bad(i) == /\ s[i] = "%"
                /\ \/ i + 2 > Len(s)
                   \/ ~IsHex(s[i + 1])
                   \/ ~IsHex(s[i + 2])
  IN  IF \E i \in 1..Len(s) : bad(i)
      THEN CHOOSE i \in 1..Len(s) : bad(i) /\ \A j \in 1..(i - 1) : ~bad(j)
      ELSE 0

RECURSIVE UnescapeFrom(_, _)
\* the second pass of unescape (mode encodeQueryComponent), from position i
UnescapeFrom(s, i) ==
  IF i > Len(s) THEN EmptyStr
  ELSE IF s[i] = "%"
       THEN <<ByteChar(16 * UnHex(s[i + 1]) + UnHex(s[i + 2]))>> \o UnescapeFrom(s, i + 3)
  ELSE IF s[i] = "+" THEN <<" ">> \o UnescapeFrom(s, i + 1)
  ELSE <<s[i]>> \o UnescapeFrom(s, i + 1)

\* url.QueryUnescape: the decoded text, or an EscapeError
QueryUnescape(s) ==
  LET at == BadEscapeAt(s)
  IN  IF at # 0
      THEN [err |-> PlainError(<<"invalid URL escape ">>
                       \o Quote(SubSeq(s, at, IF at + 2 > Len(s) THEN Len(s) ELSE at + 2))),
            text |-> EmptyStr]
      ELSE [err |-> NilError, text |-> UnescapeFrom(s, 1)]

\* m[key] = append(m[key], value)
AppendValue(m, key, value) ==
  [k \in DOMAIN m \cup {key} |->
     IF k = key
     THEN (IF key \in DOMAIN m THEN Append(m[key], value) ELSE <<value>>)
     ELSE m[k]]

EmptyMap == [k \in {} |-> <<>>]

RECURSIVE parseQuery(_, _, _)
\* url.parseQuery: the loop over the "&"-separated parameters; m and err are
\* the values accumulated so far
parseQuery(m, query, err) ==
  IF Len(query) = 0 THEN [values |-> m, err |-> err]
  ELSE LET key0  == CutBefore(query, "&")
           rest  == CutAfter(query, "&")
           key   == QueryUnescape(CutBefore(key0, "="))
           value == QueryUnescape(CutAfter(key0, "="))
       IN  IF ";" \in Range(key0)
           THEN parseQuery(m, rest, PlainError(<<"invalid semicolon separator in query">>))
           ELSE IF Len(key0) = 0 THEN parseQuery(m, rest, err)
           ELSE IF key.err.kind # "nil"
                THEN parseQuery(m, rest, IF err.kind = "nil" THEN key.err ELSE err)
           ELSE IF value.err.kind # "nil"
                THEN parseQuery(m, rest, IF err.kind = "nil" THEN value.err ELSE err)
           ELSE parseQuery(AppendValue(m, key.text, value.text), rest, err)

\* url.ParseQuery
ParseQuery(query) == parseQuery(EmptyMap, query, NilError)

(***************************************************************************)
(* Headers (micro.Headers / nats.Header): a map from a key to a non-empty  *)
(* list of values.  A key is a token sequence too, so that the prefixed    *)
(* key X-Sencillo-<name> is the prefix followed by the name.               *)
(***************************************************************************)
RequestIDKey == <<"X-Request-ID">>
UrlQueryKey == <<"X-NatsBridge-UrlQuery">>
SencilloPrefix == <<"X-Sencillo-">>
TraceParentKey == <<"traceparent">>

\* nats.Header.Get: the first value of the key, "" when the key is absent
HeaderGet(h, key) == IF key \in DOMAIN h THEN h[key][1] ELSE EmptyStr

\* nats.Header.Values: all values of the key, none when the key is absent
HeaderValues(h, key) == IF key \in DOMAIN h THEN h[key] ELSE <<>>

\* fmt.Sprintf("X-Sencillo-%s", k)
SencilloKey(k) == SencilloPrefix \o k

\* a bridge that removes the gateway's header once it has bridged it
buildQueryHeaders_Consume(h) ==
  LET query  == HeaderGet(h, UrlQueryKey)
      parsed == ParseQuery(query)
      added  == {SencilloKey(k) : k \in DOMAIN parsed.values}
  IN  IF parsed.err.kind # "nil"
      THEN [err |-> parsed.err, headers |-> h]
      ELSE [err |-> NilError,
            headers |-> [key \in (DOMAIN h \ {UrlQueryKey}) \cup added |->
                           IF key \in added
                           THEN parsed.values[SubSeq(key, Len(SencilloPrefix) + 1, Len(key))]
                           ELSE h[key]]]

\* a bridge that copies the parameters ParseQuery did parse before it returns
\* the error
buildQueryHeaders_Partial(h) ==
  LET query  == HeaderGet(h, UrlQueryKey)
      parsed == ParseQuery(query)
      added  == {SencilloKey(k) : k \in DOMAIN parsed.values}
  IN  [err |-> parsed.err,
       headers |-> [key \in DOMAIN h \cup added |->
                      IF key \in added
                      THEN parsed.values[SubSeq(key, Len(SencilloPrefix) + 1, Len(key))]
                      ELSE h[key]]]

\* buildQueryHeaders: the error returned and the header map afterwards
buildQueryHeaders(h) ==
  LET query  == HeaderGet(h, UrlQueryKey)
      parsed == ParseQuery(query)
      added  == {SencilloKey(k) : k \in DOMAIN parsed.values}
  IN  IF parsed.err.kind # "nil"
      THEN [err |-> parsed.err, headers |-> h]
      ELSE [err |-> NilError,
            headers |-> [key \in DOMAIN h \cup added |->
                           IF key \in added
                           THEN parsed.values[SubSeq(key, Len(SencilloPrefix) + 1, Len(key))]
                           ELSE h[key]]]

\* a lookup that returns only the first value of the bridged parameter
GetQueryHeaders_First(h, key) ==
  IF SencilloKey(key) \in DOMAIN h THEN <<HeaderGet(h, SencilloKey(key))>> ELSE <<>>

\* GetQueryHeaders
GetQueryHeaders(h, key) == HeaderValues(h, SencilloKey(key))

(***************************************************************************)
(* microHeaderCarrier: the propagator's view of a header map               *)
(***************************************************************************)
\* microHeaderCarrier.Get
CarrierGet(h, key) == HeaderGet(h, key)

\* a Set that appends to the value list of the key
CarrierSet_Append(h, key, val) ==
  [k \in DOMAIN h \cup {key} |->
     IF k = key THEN (IF key \in DOMAIN h THEN Append(h[key], val) ELSE <<val>>)
     ELSE h[k]]

\* microHeaderCarrier.Set: m[key] = []string{val}
CarrierSet(h, key, val) ==
  [k \in DOMAIN h \cup {key} |-> IF k = key THEN <<val>> ELSE h[k]]

\* microHeaderCarrier.Keys, their order left open
CarrierKeys(h) == DOMAIN h

(***************************************************************************)
(* Trace propagation: the propagator and tracer that AppContext holds, by  *)
(* their contract (W3C traceparent), and the functions that build an       *)
(* outbound message                                                        *)
(***************************************************************************)
\* a context without a valid span context
NoContext == [trace |-> EmptyStr, span |-> EmptyStr]

\* the span contexts a sender can be in
TraceContexts == {[trace |-> <<"t1">>, span |-> <<"s1">>], [trace |-> <<"t2">>, span |-> <<"s2">>]}

\* the traceparent value of a span context
TraceParent(ctx) == <<"00", "-">> \o ctx.trace \o <<"-">> \o ctx.span \o <<"-", "01">>

\* the span context of a traceparent value, NoContext when it is malformed
ParseTraceParent(v) ==
  IF /\ Len(v) = 7
     /\ v[1] = "00"
     /\ v[2] = "-"
     /\ v[4] = "-"
     /\ v[6] = "-"
  THEN [trace |-> <<v[3]>>, span |-> <<v[5]>>]
  ELSE NoContext

\* Propagator.Inject(ctx, carrier): nothing is written without a span context
PropagatorInject(ctx, h) ==
  IF ctx = NoContext THEN h ELSE CarrierSet(h, TraceParentKey, TraceParent(ctx))

\* Propagator.Extract(ctx, carrier): the remote span context, if any
PropagatorExtract(h) == ParseTraceParent(CarrierGet(h, TraceParentKey))

\* InjectTraceHeaders(ctx, p, headers)
InjectTraceHeaders(ctx, h) == PropagatorInject(ctx, h)

\* a span started without looking at the extracted context
ExtractParent_Background(h) == NoContext

\* newCtx := a.Propagator.Extract(ctx, microHeaderCarrier(headers)), the
\* context a.Tracer.Start(newCtx, name) makes the span a child of
ExtractParent(h) == PropagatorExtract(h)

\* MsgID: the id and the error
MsgID(h) ==
  LET id == HeaderGet(h, RequestIDKey)
  IN  IF id = EmptyStr
      THEN [id |-> EmptyStr, err |-> PlainError(<<"required request ID not found">>)]
      ELSE [id |-> id, err |-> NilError]

(***************************************************************************)
(* handleRequestError                                                      *)
(***************************************************************************)
\* one logger call: the level, the message and the logger's attributes
LogEntry(level, msg, attrs) == [level |-> level, msg |-> msg, attrs |-> attrs]

\* the logger.Error calls handleRequestError makes, in order
handleRequestErrorLogs(logger, err) ==
  IF err.kind = "client"
  THEN [i \in 1..Len(LoggedError(err)) |->
          LogEntry("ERROR", ErrorText(LoggedError(err)[i]), logger)]
  ELSE <<LogEntry("ERROR", ErrorText(err), logger)>>

InternalErrorBody == <<"{", DQ, "errors", DQ, ": [", DQ, "internal server error", DQ, "]}">>

\* a response that ignores the ClientError and always reports an internal error
handleRequestErrorResponse_AlwaysInternal(err) ==
  [code |-> CodeString(500), description |-> <<"internal server error">>,
   data |-> InternalErrorBody]

\* a response that puts the text of an unclassified error into the body
handleRequestErrorResponse_LeakText(err) ==
  IF err.kind = "client"
  THEN [code |-> CodeString(Code(err)), description |-> StatusText(Code(err)),
        data |-> Body(err)]
  ELSE [code |-> CodeString(500), description |-> <<"internal server error">>,
        data |-> <<"{", DQ, "errors", DQ, ": [">> \o Quote(ErrorText(err)) \o <<"]}">>]

\* the r.Error(code, description, data) call handleRequestError makes
handleRequestErrorResponse(err) ==
  IF err.kind = "client"
  THEN [code |-> CodeString(Code(err)), description |-> StatusText(Code(err)),
        data |-> Body(err)]
  ELSE [code |-> CodeString(500), description |-> <<"internal server error">>,
        data |-> InternalErrorBody]

\* an error handling that logs an unclassified error and writes no response
handleRequestError_NoReply(logger, err) ==
  [logs |-> handleRequestErrorLogs(logger, err),
   responses |-> IF err.kind = "client" THEN <<handleRequestErrorResponse(err)>> ELSE <<>>]

\* handleRequestError(logger, err, r): the logger calls and the r.Error calls
handleRequestError(logger, err) ==
  [logs |-> handleRequestErrorLogs(logger, err),
   responses |-> <<handleRequestErrorResponse(err)>>]

(***************************************************************************)
(* The requests a dispatch can receive                                     *)
(***************************************************************************)
\* url.QueryEscape of one character, as the gateway encodes a parameter
EscapeChar(c) ==
  CASE c = " " -> <<"+">>
    [] c = "&" -> <<"%", "2", "6">>
    [] c = "=" -> <<"%", "3", "D">>
    [] c = "%" -> <<"%", "2", "5">>
    [] c = "+" -> <<"%", "2", "B">>
    [] c = ";" -> <<"%", "3", "B">>
    [] OTHER -> <<c>>

RECURSIVE QueryEscape(_)
QueryEscape(s) == IF Len(s) = 0 THEN EmptyStr ELSE EscapeChar(Head(s)) \o QueryEscape(Tail(s))

\* A part of a query string between two "&": its text, whether it is valid
\* URL-encoded form data, and the (name, value) pairs the sender meant by it.
Segment(text, valid, pairs) == [text |-> text, valid |-> valid, pairs |-> pairs]

PairSegment(k, v) == Segment(QueryEscape(k) \o <<"=">> \o QueryEscape(v), TRUE, <<<<k, v>>>>)

ParamNames == {<<"a">>, <<"b">>}
ParamValues == {<<"1">>, <<"2">>, <<"3">>, <<"x", " ", "&", "=">>}

BadEscapeSegment == Segment(<<"a", "=", "%", "z", "z">>, FALSE, <<>>)
SemicolonSegment == Segment(<<"a", "=", "1", ";", "b", "=", "2">>, FALSE, <<>>)
ShortEscapeSegment == Segment(<<"b", "=", "%", "2">>, FALSE, <<>>)
\* a=2 with the name and the value percent-encoded throughout
EscapedPairSegment ==
  Segment(<<"%", "6", "1", "=", "%", "3", "2">>, TRUE, <<<<(<<"a">>), (<<"2">>)>>>>)

\* the segments the header bridge is checked on
Segments ==
  {PairSegment(k, v) : k \in ParamNames, v \in ParamValues}
    \cup {Segment(EmptyStr, TRUE, <<>>),
          Segment(<<"a">>, TRUE, <<<<(<<"a">>), EmptyStr>>>>),
          EscapedPairSegment, BadEscapeSegment, SemicolonSegment, ShortEscapeSegment}

\* the segments a dispatched request is checked on
DispatchSegments ==
  {PairSegment(<<"a">>, <<"1">>), PairSegment(<<"b">>, <<"x", " ", "&", "=">>),
   BadEscapeSegment, SemicolonSegment}

\* the query string made of the segments
QueryOf(segs) == Join([i \in 1..Len(segs) |-> segs[i].text], <<"&">>)

\* whether the query string is valid URL-encoded form data
ValidQuery(segs) == \A i \in 1..Len(segs) : segs[i].valid

RECURSIVE PairsOf(_)
\* the (name, value) pairs of the query string, in order
PairsOf(segs) == IF Len(segs) = 0 THEN <<>> ELSE Head(segs).pairs \o PairsOf(Tail(segs))

RECURSIVE ValuesOf(_, _)
\* the values of parameter k among the pairs, in order
ValuesOf(pairs, k) ==
  IF Len(pairs) = 0 THEN <<>>
  ELSE (IF Head(pairs)[1] = k THEN <<Head(pairs)[2]>> ELSE <<>>) \o ValuesOf(Tail(pairs), k)

\* a header map from a set of (key, values) entries
HeaderMap(entries) == [k \in {e[1] : e \in entries} |-> (CHOOSE e \in entries : e[1] = k)[2]]

(***************************************************************************)
(* What an application handler can return                                  *)
(***************************************************************************)
CauseTexts == {<<"not found">>, <<"secret ", DQ, "db", DQ, " down">>}
Codes == {400, 404}

Causes == {PlainError(t) : t \in CauseTexts}

\* how the returned error was made, and which error it is
Outcome(how, opt, err) == [how |-> how, opt |-> opt, err |-> err]

HandlerOutcomes ==
  {Outcome("nil", "none", NilError)}
    \cup {Outcome("plain", "none", c) : c \in Causes}
    \cup {Outcome("new", opt, NewClientError(c, code, opt)) :
            c \in Causes, code \in Codes, opt \in OptKinds}
    \cup {Outcome("multi", opt, MultipleClientErrors(cs, code, opt)) :
            cs \in SeqsUpTo(Causes, MaxCauses), code \in Codes, opt \in OptKinds}
    \cup {Outcome("literal", "none", ClientErrorValue(404, <<<<"not found">>>>, <<>>))}

\* the results a handler returns where two dispatches are followed together
PairedOutcomes ==
  {Outcome("nil", "none", NilError),
   Outcome("plain", "none", PlainError(<<"not found">>)),
   Outcome("new", "none", NewClientError(PlainError(<<"not found">>), 404, "none"))}

(***************************************************************************)
(* State                                                                   *)
(***************************************************************************)
VARIABLES
  variant,       \* "tracing": transports/nats ErrorHandler; "plain": the variant without tracing
  headers,       \* r.Headers(): the request's live header map
  subject,       \* r.Subject()
  segs,          \* the query parameters the gateway put into X-NatsBridge-UrlQuery
  pc,            \* the dispatch's position in ErrorHandler
  now,           \* the wall clock, in milliseconds
  start,         \* start := time.Now()
  id,            \* the id MsgID returned
  reqLogger,     \* the attributes of reqLogger
  logs,          \* the logger calls made so far
  responses,     \* the r.Error calls made so far
  handlerCalls,  \* how many times the application handler was invoked
  result,        \* the outcome of the handler invocation
  handlerCtx,    \* the HandlerContext handed to the handler
  span,          \* the span of the tracing variant
  events,        \* the steps taken so far, in order
  sent,          \* who built the request's headers, and the span context injected
  input,         \* the request's headers when the dispatch began
  first,         \* the observable results of the first of two dispatches of one request
  bsegs,         \* header bridge alone: the query parameters
  bheaders,      \* header bridge alone: the header map
  bbefore,       \* header bridge alone: the header map before bridging
  berr,          \* header bridge alone: the error buildQueryHeaders returned
  bpc,           \* header bridge alone: "init" before and "done" after bridging
  cheaders,      \* carrier alone: the live header map
  cbefore,       \* carrier alone: the header map before the last Set
  ckey,          \* carrier alone: the key of the last Set
  cval,          \* carrier alone: the value of the last Set
  csets,         \* carrier alone: the number of Set calls made
  ctor,          \* errors alone: a constructor call, its arguments and the ClientError it returned
  web,           \* HTTP alone: a request passing the RequestID middleware
  parked,        \* a second dispatch that is not running now: its locals
  notify,        \* HandleNotify alone: the stop channel, the goroutines and the service
  stats          \* CodeStats alone: a request, its StatusRec and the metrics recorded

dvars == <<variant, headers, subject, segs, pc, now, start, id, reqLogger, logs,
           responses, handlerCalls, result, handlerCtx, span, events>>
bvars == <<bsegs, bheaders, bbefore, berr, bpc>>
cvars == <<cheaders, cbefore, ckey, cval, csets>>
pvars == <<sent, input, first>>
vars == <<variant, headers, subject, segs, pc, now, start, id, reqLogger, logs,
          responses, handlerCalls, result, handlerCtx, span, events,
          sent, input, first,
          bsegs, bheaders, bbefore, berr, bpc,
          cheaders, cbefore, ckey, cval, csets, ctor, web, parked, notify, stats>>
xvars == <<parked, notify, stats>>

\* what a step of the dispatcher leaves alone
dRest == <<pvars, bvars, cvars, ctor, web, xvars>>
\* what a step of the header bridge alone leaves alone
bRest == <<dvars, pvars, cvars, ctor, web, xvars>>
\* what a step of the carrier alone leaves alone
cRest == <<dvars, pvars, bvars, ctor, web, xvars>>

\* a.Logger carries no attributes
BaseLogger == {}

\* the subjects the service's endpoints listen on
Subjects == {<<"svc.add">>, <<"svc.", "get">>}

NoSpan == [state |-> "none", ends |-> 0, status |-> "Unset", attrs |-> {},
           recorded |-> <<>>, parent |-> NoContext, name |-> EmptyStr]

NoOutcome == Outcome("none", "none", NilError)

\* the X-Request-ID value lists of a request: absent, empty, empty first, one
\* id, two ids
RequestIDValues ==
  {<<>>, <<EmptyStr>>, <<EmptyStr, (<<"id1">>)>>, <<(<<"id1">>)>>, <<(<<"id2">>), (<<"id1">>)>>}

\* the span context of a caller that is not part of this system
UpstreamContext == [trace |-> <<"t0">>, span |-> <<"s0">>]

\* NewMsgWithID().Header
NewMsgWithID == HeaderMap({<<RequestIDKey, <<(<<"ksuid1">>)>>>>})

\* the header maps an outbound message starts with: a fresh message, or one
\* that already carries a traceparent
OutboundHeaders ==
  {NewMsgWithID, CarrierSet(NewMsgWithID, TraceParentKey, TraceParent(UpstreamContext))}

\* a request from a client, and one built by a service of this system that
\* injected the span context ctx
FromClient == [origin |-> "client", ctx |-> NoContext]
FromService(ctx) == [origin |-> "service", ctx |-> ctx]

NoSnapshot == [taken |-> FALSE]

RequestHeaders(ids, hasQuery, query, traced) ==
  HeaderMap((IF Len(ids) > 0 THEN {<<RequestIDKey, ids>>} ELSE {})
              \cup (IF hasQuery THEN {<<UrlQueryKey, <<query>>>>} ELSE {})
              \cup (IF traced THEN {<<TraceParentKey, <<TraceParent(UpstreamContext)>>>>} ELSE {}))

BridgeIdle ==
  /\ bsegs = <<>>
  /\ bheaders = EmptyMap
  /\ bbefore = EmptyMap
  /\ berr = NilError
  /\ bpc = "idle"

CarrierIdle ==
  /\ cheaders = EmptyMap
  /\ cbefore = EmptyMap
  /\ ckey = EmptyStr
  /\ cval = EmptyStr
  /\ csets = 0

\* no second dispatch, no HandleNotify call and no CodeStats request
MoreIdle ==
  /\ parked = [on |-> FALSE]
  /\ notify = [pc |-> "idle"]
  /\ stats = [pc |-> "idle"]

\* no constructor call and no HTTP request
OthersIdle ==
  /\ ctor = [pc |-> "idle"]
  /\ web = [pc |-> "idle"]
  /\ MoreIdle

Init ==
  /\ OthersIdle
  /\ variant \in {"tracing", "plain"}
  /\ segs \in SeqsUpTo(DispatchSegments, MaxDispatchParams)
  /\ \/ /\ sent = FromClient
        /\ \E ids \in RequestIDValues, hasQuery \in BOOLEAN, traced \in BOOLEAN :
             /\ hasQuery \/ segs = <<>>
             /\ headers = RequestHeaders(ids, hasQuery, QueryOf(segs), traced)
     \/ /\ segs = <<>>
        /\ \E ctx \in TraceContexts \cup {NoContext}, h \in OutboundHeaders :
             /\ sent = FromService(ctx)
             /\ headers = InjectTraceHeaders(ctx, h)
  /\ input = headers
  /\ first = NoSnapshot
  /\ subject \in Subjects
  /\ pc = "start"
  /\ now = 0
  /\ start = 0
  /\ id = EmptyStr
  /\ reqLogger = BaseLogger
  /\ logs = <<>>
  /\ responses = <<>>
  /\ handlerCalls = 0
  /\ result = NoOutcome
  /\ handlerCtx = [Conn |-> "unset"]
  /\ span = NoSpan
  /\ events = <<>>
  /\ BridgeIdle
  /\ CarrierIdle

(***************************************************************************)
(* ErrorHandler, one step per action                                       *)
(***************************************************************************)
\* a logger whose two fields carry each other's value
With_Swapped(logger, reqId, path) == logger \cup {<<"request_id", path>>, <<"path", reqId>>}

\* a.Logger.With("request_id", id, "path", r.Subject())
With(logger, reqId, path) == logger \cup {<<"request_id", reqId>>, <<"path", path>>}

\* a dispatch that goes on after a failed MsgID
AfterIdentify_Continue(err) == "bridge"

\* where ErrorHandler goes after MsgID: it returns on an error
AfterIdentify(err) == IF err.kind # "nil" THEN "done" ELSE "bridge"

\* a dispatch that returns after a failed buildQueryHeaders
AfterBridge_Abort(err) ==
  IF err.kind # "nil" THEN "finish"
  ELSE IF variant = "tracing" THEN "trace" ELSE "invoke"

\* a tracing variant that returns after a failed buildQueryHeaders
AfterBridge_TracingAborts(err) ==
  IF variant = "tracing"
  THEN (IF err.kind # "nil" THEN "finish" ELSE "trace")
  ELSE "invoke"

\* where ErrorHandler goes after buildQueryHeaders: on, whatever it returned
AfterBridge(err) == IF variant = "tracing" THEN "trace" ELSE "invoke"

\* the HandlerContext literal of each variant
HandlerContext(logger) ==
  IF variant = "tracing"
  THEN [Logger |-> logger, Conn |-> "a.Conn", Tracer |-> "a.Tracer",
        Propagator |-> "a.Propagator"]
  ELSE [Logger |-> logger, Conn |-> "a.Conn"]

\* fmt.Sprintf("duration %dms", time.Since(start).Milliseconds())
DurationMsg(from, to) == <<"duration ", ToString(to - from), "ms">>

\* time passes
Tick ==
  /\ pc # "done"
  /\ ~first.taken
  /\ parked.on => parked.mode = "concurrent"
  /\ now < MaxClock
  /\ now' = now + 1
  /\ UNCHANGED <<variant, headers, subject, segs, pc, start, id, reqLogger, logs,
                 responses, handlerCalls, result, handlerCtx, span, events>>
  /\ UNCHANGED dRest

\* start := time.Now()
Start ==
  /\ pc = "start"
  /\ start' = now
  /\ events' = Append(events, "start")
  /\ pc' = "identify"
  /\ UNCHANGED <<variant, headers, subject, segs, now, id, reqLogger, logs,
                 responses, handlerCalls, result, handlerCtx, span>>
  /\ UNCHANGED dRest

\* id, err := MsgID(r); on an error respond and return, else derive reqLogger
\* and defer the duration log
Identify ==
  /\ pc = "identify"
  /\ LET m  == MsgID(headers)
         ce == NewClientError(m.err, 400, "none")
     IN  /\ id' = m.id
         /\ pc' = AfterIdentify(m.err)
         /\ IF m.err.kind # "nil"
            THEN /\ logs' = logs \o handleRequestError(BaseLogger, ce).logs
                 /\ responses' = responses \o handleRequestError(BaseLogger, ce).responses
                 /\ events' = events \o <<"identify", "respond-error">>
                 /\ UNCHANGED reqLogger
            ELSE /\ reqLogger' = With(BaseLogger, m.id, subject)
                 /\ events' = events \o <<"identify", "log-context">>
                 /\ UNCHANGED <<logs, responses>>
  /\ UNCHANGED <<variant, headers, subject, segs, now, start, handlerCalls, result,
                 handlerCtx, span>>
  /\ UNCHANGED dRest

\* buildQueryHeaders(r), its error handed to handleRequestError; then the
\* HandlerContext is built
Bridge ==
  /\ pc = "bridge"
  /\ LET b == buildQueryHeaders(headers)
     IN  /\ headers' = b.headers
         /\ pc' = AfterBridge(b.err)
         /\ IF b.err.kind # "nil"
            THEN /\ logs' = logs \o handleRequestError(reqLogger, b.err).logs
                 /\ responses' = responses \o handleRequestError(reqLogger, b.err).responses
                 /\ events' = events \o <<"bridge", "respond-error">>
            ELSE /\ events' = Append(events, "bridge")
                 /\ UNCHANGED <<logs, responses>>
  /\ handlerCtx' = HandlerContext(reqLogger)
  /\ UNCHANGED <<variant, subject, segs, now, start, id, reqLogger, handlerCalls,
                 result, span>>
  /\ UNCHANGED dRest

\* a.Propagator.Extract, a.Tracer.Start, span.SetAttributes, defer span.End()
TraceExtract ==
  /\ pc = "trace"
  /\ span' = [NoSpan EXCEPT !.state = "started",
                            !.parent = ExtractParent(headers),
                            !.name = <<"name">>,
                            !.attrs = {<<"X-Request-ID", id>>}]
  /\ events' = Append(events, "span-start")
  /\ pc' = "invoke"
  /\ UNCHANGED <<variant, headers, subject, segs, now, start, id, reqLogger, logs,
                 responses, handlerCalls, result, handlerCtx>>
  /\ UNCHANGED dRest

\* err = handler(...)
Invoke ==
  /\ pc = "invoke"
  /\ \E o \in HandlerOutcomes :
       /\ first.taken => o = first.result
       /\ parked.on => o \in PairedOutcomes
       /\ result' = o
  /\ handlerCalls' = handlerCalls + 1
  /\ events' = Append(events, "invoke")
  /\ pc' = "outcome"
  /\ UNCHANGED <<variant, headers, subject, segs, now, start, id, reqLogger, logs,
                 responses, handlerCtx, span>>
  /\ UNCHANGED dRest

\* the span steps are steps of the tracing variant only
SpanSteps(steps) == IF variant = "tracing" THEN steps ELSE <<>>

\* a span that is marked Ok whatever the handler returned
SpanStatus_AlwaysOk(err) == "Ok"

\* the span status the tracing variant sets for the handler's error
SpanStatus(err) == IF err.kind = "nil" THEN "Ok" ELSE "Error"

\* if err == nil { SetStatus(Ok); return }; SetStatus(Error); RecordError;
\* handleRequestError(reqLogger, err, r)
HandleOutcome ==
  /\ pc = "outcome"
  /\ IF variant = "tracing"
     THEN span' = [span EXCEPT !.status = SpanStatus(result.err),
                               !.recorded = IF result.err.kind = "nil" THEN @
                                            ELSE Append(@, ErrorText(result.err))]
     ELSE UNCHANGED span
  /\ IF result.err.kind = "nil"
     THEN /\ events' = events \o SpanSteps(<<"span-status">>)
          /\ UNCHANGED <<logs, responses>>
     ELSE /\ logs' = logs \o handleRequestError(reqLogger, result.err).logs
          /\ responses' = responses \o handleRequestError(reqLogger, result.err).responses
          /\ events' = events \o SpanSteps(<<"span-status">>) \o <<"respond-error">>
  /\ pc' = "finish"
  /\ UNCHANGED <<variant, headers, subject, segs, now, start, id, reqLogger,
                 handlerCalls, result, handlerCtx>>
  /\ UNCHANGED dRest

\* the deferred calls in the order the defer statements register them: the
\* duration log first and, in the tracing variant, span.End() second
DeferStack == <<"duration">> \o SpanSteps(<<"span-end">>)

RECURSIVE Reverse(_)
Reverse(q) == IF Len(q) = 0 THEN <<>> ELSE Append(Reverse(Tail(q)), Head(q))

\* deferred calls run in the order they were registered
RunDeferred_FIFO(stack) == stack

\* deferred calls run last registered first
RunDeferred(stack) == Reverse(stack)

\* a span that is ended only when the handler succeeded
SpanEnd_OnlyOnSuccess(s) ==
  IF s.status = "Error" THEN s ELSE [s EXCEPT !.state = "ended", !.ends = @ + 1]

\* span.End()
SpanEnd(s) == [s EXCEPT !.state = "ended", !.ends = @ + 1]

\* the deferred calls, last registered first: span.End(), then the duration log
Finish ==
  /\ pc = "finish"
  /\ IF variant = "tracing"
     THEN span' = SpanEnd(span)
     ELSE UNCHANGED span
  /\ logs' = Append(logs, LogEntry("INFO", DurationMsg(start, now), reqLogger))
  /\ events' = events \o RunDeferred(DeferStack)
  /\ pc' = "done"
  /\ UNCHANGED <<variant, headers, subject, segs, now, start, id, reqLogger,
                 responses, handlerCalls, result, handlerCtx>>
  /\ UNCHANGED dRest

Next ==
  \/ Tick
  \/ Start
  \/ Identify
  \/ Bridge
  \/ TraceExtract
  \/ Invoke
  \/ HandleOutcome
  \/ Finish

Spec == Init /\ [][Next]_vars

(***************************************************************************)
(* One request dispatched by both variants: after the dispatch by one      *)
(* variant has finished, its observable results are kept in first and the  *)
(* same request, with the handler returning the same error, is dispatched  *)
(* by the other variant.  The clock is not observed in the comparison:     *)
(* the duration logged is replaced by its label.                           *)
(***************************************************************************)
OtherVariant(v) == IF v = "tracing" THEN "plain" ELSE "tracing"

IsDurationLog(e) == Len(e.msg) > 0 /\ e.msg[1] = "duration "

\* the log calls with the logged number of milliseconds left out
MaskDurations(l) ==
  [i \in 1..Len(l) |-> IF IsDurationLog(l[i]) THEN [l[i] EXCEPT !.msg = <<"duration ">>] ELSE l[i]]

\* what a dispatch did, apart from its span and its tracer and propagator
Observed ==
  [taken |-> TRUE, variant |-> variant, handlerCalls |-> handlerCalls,
   result |-> result, responses |-> responses, logs |-> MaskDurations(logs),
   reqLogger |-> reqLogger, headers |-> headers,
   ctxLogger |-> IF handlerCalls > 0 THEN handlerCtx.Logger ELSE BaseLogger,
   ctxConn |-> handlerCtx.Conn]

Replay ==
  /\ pc = "done"
  /\ ~first.taken
  /\ first' = Observed
  /\ variant' = OtherVariant(variant)
  /\ headers' = input
  /\ pc' = "start"
  /\ now' = 0
  /\ start' = 0
  /\ id' = EmptyStr
  /\ reqLogger' = BaseLogger
  /\ logs' = <<>>
  /\ responses' = <<>>
  /\ handlerCalls' = 0
  /\ result' = NoOutcome
  /\ handlerCtx' = [Conn |-> "unset"]
  /\ span' = NoSpan
  /\ events' = <<>>
  /\ UNCHANGED <<subject, segs, sent, input>>
  /\ UNCHANGED <<bvars, cvars, ctor, web, xvars>>

NextPair ==
  \/ Next
  \/ Replay

SpecPair == Init /\ [][NextPair]_vars

(***************************************************************************)
(* Two requests dispatched concurrently.  The transport runs each call of  *)
(* the ErrorHandler closure on its own goroutine; one of the two calls is  *)
(* running and the other is parked with its parameters and locals.  Switch *)
(* lets the other call run.  The wall clock is the same for both;         *)
(* variant is the build's.                                                 *)
(***************************************************************************)
\* the parameters and locals of the running call of the closure
Locals ==
  [headers |-> headers, subject |-> subject, segs |-> segs, pc |-> pc, start |-> start,
   id |-> id, reqLogger |-> reqLogger, logs |-> logs, responses |-> responses,
   handlerCalls |-> handlerCalls, result |-> result, handlerCtx |-> handlerCtx,
   span |-> span, events |-> events, sent |-> sent, input |-> input]

\* a call that has not begun, for the request with these headers
FreshLocals(h, sub, sg, from) ==
  [headers |-> h, subject |-> sub, segs |-> sg, pc |-> "start", start |-> 0,
   id |-> EmptyStr, reqLogger |-> BaseLogger, logs |-> <<>>, responses |-> <<>>,
   handlerCalls |-> 0, result |-> NoOutcome, handlerCtx |-> [Conn |-> "unset"],
   span |-> NoSpan, events |-> <<>>, sent |-> from, input |-> h]

\* a reqLogger that is one variable of the ErrorHandler, outside the closure:
\* a call finds in it what the call that ran last left there
LoggerOf_Shared(own, last) == last

\* reqLogger is declared in the closure: a call finds in it what it put there
LoggerOf(own, last) == own

\* the running call continues with the locals d
Resume(d) ==
  /\ headers' = d.headers
  /\ subject' = d.subject
  /\ segs' = d.segs
  /\ pc' = d.pc
  /\ start' = d.start
  /\ id' = d.id
  /\ reqLogger' = LoggerOf(d.reqLogger, reqLogger)
  /\ logs' = d.logs
  /\ responses' = d.responses
  /\ handlerCalls' = d.handlerCalls
  /\ result' = d.result
  /\ handlerCtx' = d.handlerCtx
  /\ span' = d.span
  /\ events' = d.events
  /\ sent' = d.sent
  /\ input' = d.input

\* the requests two concurrent dispatches are followed on: without an id, or
\* with id1 on one subject or id2 on the other; with no query or a bad one
ConcRequests ==
  {FreshLocals(RequestHeaders(ids, Len(sg) > 0, QueryOf(sg), FALSE),
               IF ids = <<(<<"id2">>)>> THEN <<"svc.", "get">> ELSE <<"svc.add">>,
               sg, FromClient) :
     ids \in {<<>>, <<(<<"id1">>)>>, <<(<<"id2">>)>>}, sg \in {<<>>, <<BadEscapeSegment>>}}

InitConc ==
  /\ ctor = [pc |-> "idle"]
  /\ web = [pc |-> "idle"]
  /\ notify = [pc |-> "idle"]
  /\ stats = [pc |-> "idle"]
  /\ BridgeIdle
  /\ CarrierIdle
  /\ variant \in {"tracing", "plain"}
  /\ now = 0
  /\ first = NoSnapshot
  /\ \E r1 \in ConcRequests, r2 \in ConcRequests :
       /\ headers = r1.headers
       /\ subject = r1.subject
       /\ segs = r1.segs
       /\ sent = r1.sent
       /\ input = r1.input
       /\ parked = [on |-> TRUE, mode |-> "concurrent", locals |-> r2]
  /\ pc = "start"
  /\ start = 0
  /\ id = EmptyStr
  /\ reqLogger = BaseLogger
  /\ logs = <<>>
  /\ responses = <<>>
  /\ handlerCalls = 0
  /\ result = NoOutcome
  /\ handlerCtx = [Conn |-> "unset"]
  /\ span = NoSpan
  /\ events = <<>>

\* the scheduler lets the other call run
Switch ==
  /\ parked.on
  /\ parked.mode = "concurrent"
  /\ parked' = [parked EXCEPT !.locals = Locals]
  /\ Resume(parked.locals)
  /\ UNCHANGED <<variant, now, first, bvars, cvars, ctor, web, notify, stats>>

SpecConc == InitConc /\ [][Next \/ Switch]_vars

(***************************************************************************)
(* A handler that forwards its request, as SpecificHandler does: it builds *)
(* a message with RequestToMsg and sends it to another service of the      *)
(* system, whose ErrorHandler dispatches it while the first call waits for *)
(* the reply.                                                              *)
(***************************************************************************)
\* a message that takes the payload and leaves the headers behind
RequestToMsg_DataOnly(h, data) == [Header |-> EmptyMap, Data |-> data]

\* RequestToMsg: the request's header map and its payload
RequestToMsg(h, data) == [Header |-> h, Data |-> data]

\* msg := RequestToMsg(r); msg.Subject = "testing.things"; Conn.RequestMsg(msg)
Forward ==
  /\ pc = "invoke"
  /\ ~parked.on
  /\ \E data \in {EmptyStr, <<"{}">>} :
       LET msg == RequestToMsg(headers, data)
       IN  /\ parked' = [on |-> TRUE, mode |-> "forward", locals |-> Locals,
                         data |-> data, msg |-> msg]
           /\ Resume(FreshLocals(msg.Header, <<"testing.things">>, segs,
                                 [origin |-> "forward", ctx |-> NoContext]))
  /\ UNCHANGED <<variant, now, first, bvars, cvars, ctor, web, notify, stats>>

SpecForward == Init /\ [][Next \/ Forward]_vars

(***************************************************************************)
(* The header bridge on its own: buildQueryHeaders applied to a request's  *)
(* headers, then read back with GetQueryHeaders                            *)
(***************************************************************************)
DispatchIdle ==
  /\ variant = "plain"
  /\ headers = EmptyMap
  /\ subject = EmptyStr
  /\ segs = <<>>
  /\ pc = "idle"
  /\ now = 0
  /\ start = 0
  /\ id = EmptyStr
  /\ reqLogger = BaseLogger
  /\ logs = <<>>
  /\ responses = <<>>
  /\ handlerCalls = 0
  /\ result = NoOutcome
  /\ handlerCtx = [Conn |-> "unset"]
  /\ span = NoSpan
  /\ events = <<>>
  /\ sent = FromClient
  /\ input = EmptyMap
  /\ first = NoSnapshot

\* headers a request can carry besides the query string: an unrelated header
\* and one that already uses the private prefix
OtherHeader == <<<<"Content-Type">>, <<(<<"application/json">>)>>>>
StaleHeader == <<SencilloKey(<<"a">>), <<(<<"stale">>)>>>>

InitBridge ==
  /\ OthersIdle
  /\ DispatchIdle
  /\ CarrierIdle
  /\ bsegs \in SeqsUpTo(Segments, MaxParams)
  /\ \E hasQuery \in BOOLEAN, stale \in BOOLEAN :
       /\ hasQuery \/ bsegs = <<>>
       /\ bheaders = HeaderMap({<<RequestIDKey, <<(<<"id1">>)>>>>, OtherHeader}
                       \cup (IF hasQuery THEN {<<UrlQueryKey, <<QueryOf(bsegs)>>>>} ELSE {})
                       \cup (IF stale THEN {StaleHeader} ELSE {}))
  /\ bbefore = bheaders
  /\ berr = NilError
  /\ bpc = "init"

\* err := buildQueryHeaders(r)
BuildQueryHeaders ==
  /\ bpc = "init"
  /\ bheaders' = buildQueryHeaders(bheaders).headers
  /\ berr' = buildQueryHeaders(bheaders).err
  /\ bpc' = "done"
  /\ UNCHANGED <<bsegs, bbefore>>
  /\ UNCHANGED bRest

NextBridge == BuildQueryHeaders

SpecBridge == InitBridge /\ [][NextBridge]_vars

(***************************************************************************)
(* The carrier on its own: Set calls on a header map                       *)
(***************************************************************************)
CarrierHeaderKeys == {TraceParentKey, <<"tracestate">>, RequestIDKey}
CarrierTexts == {EmptyStr, <<"v1">>, <<"v2">>}

\* the value lists a header can start with: absent, or up to MaxCarrierValues
CarrierValueLists == SeqsUpTo(CarrierTexts \ {EmptyStr}, MaxCarrierValues)

InitCarrier ==
  /\ OthersIdle
  /\ DispatchIdle
  /\ BridgeIdle
  /\ \E lists \in [CarrierHeaderKeys -> CarrierValueLists] :
       cheaders = HeaderMap({<<k, lists[k]>> : k \in {x \in CarrierHeaderKeys : Len(lists[x]) > 0}})
  /\ cbefore = cheaders
  /\ ckey = EmptyStr
  /\ cval = EmptyStr
  /\ csets = 0

\* carrier.Set(key, val), as a propagator's Inject calls it
Set ==
  /\ csets < MaxSets
  /\ \E key \in CarrierHeaderKeys, val \in CarrierTexts :
       /\ cheaders' = CarrierSet(cheaders, key, val)
       /\ ckey' = key
       /\ cval' = val
  /\ cbefore' = cheaders
  /\ csets' = csets + 1
  /\ UNCHANGED cRest

NextCarrier == Set

SpecCarrier == InitCarrier /\ [][NextCarrier]_vars

(***************************************************************************)
(* Properties                                                              *)
(***************************************************************************)
\* the request carries no X-Request-ID, or an empty one
MissingID == HeaderGet(headers, RequestIDKey) = EmptyStr

\* the handler has returned
HandlerReturned == pc \in {"finish", "done"} /\ result.how # "none"

LastResponse == responses[Len(responses)]

\* C1: a request whose X-Request-ID is absent or empty never reaches the
\* application handler and never gets a span, in either variant; whenever the
\* dispatch is past the identification step the extracted id is non-empty.
C1_HandlerNeedsID ==
  /\ MissingID => (handlerCalls = 0 /\ span.state = "none")
  /\ (handlerCalls > 0 \/ span.state # "none"
        \/ pc \in {"bridge", "trace", "invoke", "outcome", "finish"})
       => (id # EmptyStr /\ id = HeaderGet(headers, RequestIDKey))

C1_Witness == pc = "done" /\ MissingID /\ handlerCalls = 0 /\ events # <<>>

\* the response to a request without a correlation id
MissingIDResponse ==
  [code |-> 400, description |-> <<"Bad Request">>,
   data |-> <<"{", DQ, "errors", DQ, ": [", DQ, "required request ID not found", DQ, "]}">>]

\* C2: a request whose X-Request-ID is absent or empty gets exactly one error
\* response, status 400 with the envelope of the caller-fault error, and the
\* dispatch ends there.
C2_MissingIDResponds400 ==
  MissingID =>
    \/ pc \in {"start", "identify"} /\ responses = <<>>
    \/ pc = "done" /\ responses = <<MissingIDResponse>>

C2_Witness == pc = "done" /\ MissingID /\ responses = <<MissingIDResponse>>

\* C3: when the handler returns an error that is not a ClientError the response
\* written for it is 500 with the fixed internal-error envelope, the error's
\* text is logged at error level, and no response body contains that text.
C3_UnclassifiedIs500 ==
  (HandlerReturned /\ result.err.kind = "error") =>
    /\ Len(responses) >= 1
    /\ LastResponse.code = 500
    /\ LastResponse.description = <<"internal server error">>
    /\ LastResponse.data = <<"{", DQ, "errors", DQ, ": [", DQ, "internal server error", DQ, "]}">>
    /\ \A i \in 1..Len(responses) : ~Contains(responses[i].data, result.err.text)
    /\ \E j \in 1..Len(logs) :
         /\ logs[j].level = "ERROR"
         /\ logs[j].msg = result.err.text
         /\ logs[j].attrs = reqLogger

C3_Witness ==
  /\ pc = "done"
  /\ result.err.kind = "error"
  /\ LastResponse.code = 500

\* the JSON envelope listing the texts as JSON strings
Envelope(texts) ==
  <<"{", DQ, "errors", DQ, ": [">>
    \o Join([i \in 1..Len(texts) |-> Quote(texts[i])], <<",">>)
    \o <<"]}">>

\* the details an outcome's ClientError was given: the texts of its causes
\* when a constructor derived them, the Details field when it was set directly
DetailTexts(o) ==
  IF o.how = "literal" \/ o.opt = "details" THEN o.err.Details
  ELSE [i \in 1..Len(o.err.DetailedErrors) |-> o.err.DetailedErrors[i].text]

\* C4: for every ClientError the handler returns, however it was made, the
\* written status is its Code() and the body is the envelope listing its
\* details as JSON strings (status 404 with details ["not found"] gives
\* exactly {"errors": ["not found"]}).
C4_ClientErrorEnvelope ==
  (HandlerReturned /\ result.err.kind = "client") =>
    /\ Len(responses) >= 1
    /\ LastResponse.code = Code(result.err)
    /\ LastResponse.data = Envelope(DetailTexts(result))

\* C5: when the handler returns a ClientError made by NewClientError or
\* MultipleClientErrors, the causes are logged and the text of no cause is in
\* a response body.
C5_CausesNotInBody ==
  (HandlerReturned /\ result.how \in {"new", "multi"}) =>
    \A c \in 1..Len(LoggedError(result.err)) :
      /\ \E j \in 1..Len(logs) : logs[j].msg = LoggedError(result.err)[c].text
      /\ \A i \in 1..Len(responses) :
           ~Contains(responses[i].data, LoggedError(result.err)[c].text)

C7_BridgeFailureIs4xx ==
  (~MissingID /\ ~ValidQuery(segs)
     /\ pc \in {"trace", "invoke", "outcome", "finish", "done"}) =>
    /\ Len(responses) >= 1
    /\ responses[1].code \in 400..499

\* C8: with a correlation id and a malformed bridge query string, the bridge
\* failure is reported with an error response before the handler runs, and
\* the handler is still invoked, exactly once.
C8_BridgeFailureStillInvokes ==
  (~MissingID /\ ~ValidQuery(segs)) =>
    /\ handlerCalls <= 1
    /\ pc \in {"trace", "invoke"} =>
         (Len(responses) = 1 /\ handlerCalls = 0 /\ events[Len(events)] # "invoke")
    /\ pc \in {"outcome", "finish", "done"} =>
         (Len(responses) >= 1 /\ handlerCalls = 1)

C8_Witness ==
  /\ pc = "done"
  /\ ~MissingID
  /\ ~ValidQuery(segs)
  /\ handlerCalls = 1
  /\ Len(responses) >= 1

\* the positions of the duration log entries
DurationLogs ==
  {j \in 1..Len(logs) : Len(logs[j].msg) > 0 /\ logs[j].msg[1] = "duration "}

\* C9: every finished dispatch, the error paths included, has logged exactly
\* one duration, and that duration is not negative.
C9_DurationLoggedOnce ==
  pc = "done" =>
    /\ Cardinality(DurationLogs) = 1
    /\ \A j \in DurationLogs : logs[j].msg[2] \in {ToString(n) : n \in 0..(MaxClock + 1)}

\* the names of the parameters in the pairs
NamesOf(pairs) == {pairs[i][1] : i \in 1..Len(pairs)}

ExampleQuery == <<"a", "=", "1", "&", "a", "=", "2", "&", "b", "=", "3">>

\* C10: after bridging a valid query string, GetQueryHeaders of every
\* parameter name in it returns that parameter's values in their original
\* order; for a=1&a=2&b=3, a gives ["1","2"] and b gives ["3"].
C10_BridgeLossless ==
  (bpc = "done" /\ ValidQuery(bsegs) /\ UrlQueryKey \in DOMAIN bbefore) =>
    /\ berr.kind = "nil"
    /\ \A k \in NamesOf(PairsOf(bsegs)) :
         GetQueryHeaders(bheaders, k) = ValuesOf(PairsOf(bsegs), k)
    /\ HeaderGet(bbefore, UrlQueryKey) = ExampleQuery =>
         /\ GetQueryHeaders(bheaders, <<"a">>) = <<(<<"1">>), (<<"2">>)>>
         /\ GetQueryHeaders(bheaders, <<"b">>) = <<(<<"3">>)>>

C10_Witness ==
  /\ bpc = "done"
  /\ HeaderGet(bbefore, UrlQueryKey) = ExampleQuery
  /\ GetQueryHeaders(bheaders, <<"a">>) = <<(<<"1">>), (<<"2">>)>>

\* C11: in the tracing variant the span is started once the request is
\* identified and is ended exactly once when the dispatch finishes, whatever
\* the handler returned; it is not ended before that, and a request without a
\* correlation id gets no span: none is started and none is ended.
C11_SpanEndedOnce ==
  /\ MissingID => (span.state = "none" /\ span.ends = 0)
  /\ variant = "plain" => span = NoSpan
  /\ (variant = "tracing" /\ pc \in {"invoke", "outcome", "finish"}) =>
       (span.state = "started" /\ span.ends = 0)
  /\ (variant = "tracing" /\ pc = "done" /\ ~MissingID) =>
       (span.state = "ended" /\ span.ends = 1 /\ handlerCalls = 1)

C11_Witness ==
  /\ variant = "tracing"
  /\ pc = "done"
  /\ result.err.kind = "client"
  /\ span.state = "ended"
  /\ span.ends = 1

\* C12: after carrier.Set(key, val) the live header map holds exactly [val]
\* for key, whatever list was there before; Get(key) returns val, Keys()
\* contains key, and every other key has the value list it had.
C12_SetOverwrites ==
  csets > 0 =>
    /\ HeaderValues(cheaders, ckey) = <<cval>>
    /\ CarrierGet(cheaders, ckey) = cval
    /\ ckey \in CarrierKeys(cheaders)
    /\ \A k \in (DOMAIN cbefore \cup DOMAIN cheaders) \ {ckey} :
         /\ k \in DOMAIN cbefore
         /\ k \in DOMAIN cheaders
         /\ cheaders[k] = cbefore[k]

C12_Witness ==
  /\ csets > 0
  /\ Len(HeaderValues(cbefore, ckey)) = 2
  /\ HeaderValues(cheaders, ckey) = <<cval>>
  /\ cbefore[ckey][1] # cval

\* C13: a dispatch (tracing variant) of a message whose headers a service
\* built and injected its span context into starts its span as a child of
\* that context; a dispatch of a request without a trace context in its
\* headers starts a root span.
C13_InjectExtractRoundTrip ==
  variant = "tracing" =>
    /\ (sent.origin = "service" /\ pc \in {"invoke", "outcome", "finish", "done"}) =>
         /\ span.state # "none"
         /\ sent.ctx # NoContext => span.parent = sent.ctx
    /\ (span.state # "none" /\ TraceParentKey \notin DOMAIN input) =>
         span.parent = NoContext

C13_Witness ==
  /\ variant = "tracing"
  /\ pc = "done"
  /\ sent.origin = "service"
  /\ sent.ctx \in TraceContexts
  /\ span.state = "ended"
  /\ span.parent = sent.ctx

\* C14: the two variants dispatch a request alike: given the same request and
\* the same handler result they make the same handler-invocation decision,
\* write the same error responses, use the same request logger, log the same
\* calls (a duration included) and leave the same headers; the tracing
\* variant alone has a span and the tracer and propagator in HandlerContext.
C14_VariantsAgree ==
  first.taken =>
    /\ variant = OtherVariant(first.variant)
    /\ handlerCalls <= first.handlerCalls
    /\ Len(responses) <= Len(first.responses)
    /\ pc = "done" =>
         /\ handlerCalls = first.handlerCalls
         /\ result = first.result
         /\ responses = first.responses
         /\ MaskDurations(logs) = first.logs
         /\ reqLogger = first.reqLogger
         /\ headers = first.headers
         /\ handlerCalls > 0 =>
              /\ handlerCtx.Logger = first.ctxLogger
              /\ handlerCtx.Conn = first.ctxConn
              /\ "Tracer" \in DOMAIN handlerCtx <=> variant = "tracing"
         /\ span.state # "none" => variant = "tracing"

C14_Witness ==
  /\ first.taken
  /\ pc = "done"
  /\ first.variant = "tracing"
  /\ ~ValidQuery(segs)
  /\ result.err.kind = "client"
  /\ Len(responses) = 2
  /\ responses = first.responses

\* C15: for a request with a valid correlation ID the logger handed to the
\* handler in HandlerContext, and the logger of every error log and of the
\* duration log, carries request_id equal to the header's value and path equal
\* to the request's subject.
C15_LoggerFields ==
  LET fields == {<<"request_id", HeaderGet(input, RequestIDKey)>>, <<"path", subject>>}
  IN  ~MissingID =>
        /\ pc \notin {"start", "identify"} => reqLogger = fields
        /\ handlerCalls > 0 => handlerCtx.Logger = fields
        /\ \A i \in 1..Len(logs) : logs[i].attrs = fields

C15_Witness ==
  /\ pc = "done"
  /\ handlerCalls = 1
  /\ Len(HeaderValues(input, RequestIDKey)) = 2
  /\ subject = <<"svc.", "get">>
  /\ Len(logs) = 3
  /\ \E i \in 1..Len(logs) : IsDurationLog(logs[i])
  /\ handlerCtx.Logger = {<<"request_id", <<"id2">>>>, <<"path", <<"svc.", "get">>>>}

(***************************************************************************)
(* Package errors alone: one call of NewClientError or                     *)
(* MultipleClientErrors.  A cause is a plain error, an error with empty    *)
(* text, or a ClientError.                                                 *)
(***************************************************************************)
CtorCauses ==
  Causes \cup {PlainError(EmptyStr), NewClientError(PlainError(<<"not found">>), 404, "none")}

InitErrors ==
  /\ DispatchIdle
  /\ BridgeIdle
  /\ CarrierIdle
  /\ web = [pc |-> "idle"]
  /\ MoreIdle
  /\ \E how \in {"new", "multi"}, errs \in SeqsUpTo(CtorCauses, MaxCauses),
        code \in Codes \cup {0}, opt \in OptKinds :
       /\ how = "new" => Len(errs) = 1
       /\ ctor = [pc |-> "args", how |-> how, errs |-> errs, code |-> code, opt |-> opt,
                  ce |-> NilError]

Construct ==
  /\ ctor.pc = "args"
  /\ ctor' = [ctor EXCEPT !.pc = "built",
                          !.ce = IF ctor.how = "new"
                                 THEN NewClientError(ctor.errs[1], ctor.code, ctor.opt)
                                 ELSE MultipleClientErrors(ctor.errs, ctor.code, ctor.opt)]
  /\ UNCHANGED <<dvars, pvars, bvars, cvars, web, xvars>>

SpecErrors == InitErrors /\ [][Construct]_vars

RECURSIVE UnquoteBody(_)
\* strconv.Unquote of the text between the quotes: an escape stands for the
\* character after the backslash
UnquoteBody(s) ==
  IF Len(s) = 0 THEN EmptyStr
  ELSE IF Head(s) = BS /\ Len(s) > 1 THEN <<s[2]>> \o UnquoteBody(Tail(Tail(s)))
  ELSE <<Head(s)>> \o UnquoteBody(Tail(s))

\* the text a detail quotes; the detail itself when it is not a quoted text
Unquote(d) ==
  IF Len(d) >= 2 /\ d[1] = DQ /\ d[Len(d)] = DQ
  THEN UnquoteBody(SubSeq(d, 2, Len(d) - 1))
  ELSE d

\* C16: a ClientError made by NewClientError or MultipleClientErrors without
\* options has as many details as causes, detail i is the quoted text of
\* cause i, the logged errors are the causes in order, and Code() is the code
\* passed to the constructor.
C16_DetailsMatchCauses ==
  (ctor.pc = "built" /\ ctor.opt = "none") =>
    /\ Len(ctor.ce.Details) = Len(ctor.errs)
    /\ Len(LoggedError(ctor.ce)) = Len(ctor.errs)
    /\ \A i \in 1..Len(ctor.errs) :
         /\ Len(ctor.ce.Details[i]) >= 2
         /\ ctor.ce.Details[i][1] = DQ
         /\ Unquote(ctor.ce.Details[i]) = ErrorText(ctor.errs[i])
         /\ LoggedError(ctor.ce)[i] = ctor.errs[i]
    /\ Code(ctor.ce) = ctor.code

C16_Witness ==
  /\ ctor.pc = "built"
  /\ ctor.opt = "none"
  /\ ctor.how = "multi"
  /\ ctor.code = 0
  /\ Len(ctor.errs) = 2
  /\ ctor.errs[1].kind = "client"
  /\ ctor.errs[2] = PlainError(<<"secret ", DQ, "db", DQ, " down">>)
  /\ Len(ctor.ce.Details) = 2

(***************************************************************************)
(* transports/http/middleware alone: one request passing RequestID.        *)
(* An http.Header maps a canonical key to its values; Get returns the      *)
(* first value of the key and "" when there is none, Add appends a value.  *)
(***************************************************************************)
\* textproto.CanonicalMIMEHeaderKey of the keys the model uses
CanonicalKey(k) == IF k = RequestIDKey THEN <<"X-Request-Id">> ELSE k

HttpGet(h, key) ==
  LET k == CanonicalKey(key)
  IN  IF k \in DOMAIN h /\ Len(h[k]) > 0 THEN h[k][1] ELSE EmptyStr

HttpAdd(h, key, value) ==
  LET k == CanonicalKey(key)
  IN  [x \in DOMAIN h \cup {k} |->
         IF x = k THEN (IF k \in DOMAIN h THEN Append(h[k], value) ELSE <<value>>) ELSE h[x]]

\* ksuid.New().String(): a fresh, non-empty id
Ksuids == {<<"ksuid1">>, <<"ksuid2">>}

\* the X-Request-ID values a client can send: none, empty ones and ids
HttpIDValues == SeqsUpTo({EmptyStr, <<"id1">>, <<"id2">>}, MaxHttpValues)

InitHTTP ==
  /\ DispatchIdle
  /\ BridgeIdle
  /\ CarrierIdle
  /\ ctor = [pc |-> "idle"]
  /\ MoreIdle
  /\ \E ids \in HttpIDValues, accept \in BOOLEAN, preset \in BOOLEAN :
       LET req  == HeaderMap((IF Len(ids) > 0 THEN {<<CanonicalKey(RequestIDKey), ids>>} ELSE {})
                      \cup (IF accept THEN {<<(<<"Accept">>), <<(<<"*/*">>)>>>>} ELSE {}))
           resp == HeaderMap(IF preset THEN {<<(<<"Vary">>), <<(<<"Origin">>)>>>>} ELSE {})
       IN  web = [pc |-> "request", req |-> req, resp |-> resp, req0 |-> req,
                  resp0 |-> resp, seen |-> EmptyMap]

\* the middleware's function: add a generated id when Get finds none, then
\* call the wrapped handler, which sees the request's headers
RequestID ==
  /\ web.pc = "request"
  /\ \E newid \in Ksuids :
       LET add  == HttpGet(web.req, RequestIDKey) = EmptyStr
           req  == IF add THEN HttpAdd(web.req, RequestIDKey, newid) ELSE web.req
           resp == IF add THEN HttpAdd(web.resp, RequestIDKey, newid) ELSE web.resp
       IN  web' = [web EXCEPT !.pc = "served", !.req = req, !.resp = resp, !.seen = req]
  /\ UNCHANGED <<dvars, pvars, bvars, cvars, ctor, xvars>>

SpecHTTP == InitHTTP /\ [][RequestID]_vars

\* C17: the request the wrapped handler gets always has a non-empty
\* X-Request-ID; when the header was absent one generated id was added to the
\* request and to the response headers, the same in both, and when it was
\* present both header maps are as they were.
C17_RequestIDNonEmpty ==
  LET k == CanonicalKey(RequestIDKey)
  IN  web.pc = "served" =>
        /\ HttpGet(web.seen, RequestIDKey) # EmptyStr
        /\ k \notin DOMAIN web.req0 =>
             /\ Len(web.req[k]) = 1
             /\ web.req[k][1] \in Ksuids
             /\ web.resp = HttpAdd(web.resp0, RequestIDKey, web.req[k][1])
             /\ web.req = HttpAdd(web.req0, RequestIDKey, web.req[k][1])
        /\ k \in DOMAIN web.req0 => (web.req = web.req0 /\ web.resp = web.resp0)

\* C18: whatever the bridge and the handler return, the dispatcher calls the
\* request's Error operation at most once for one request.
C18_RespondErrorAtMostOnce ==
  /\ Len(responses) <= 1
  /\ Cardinality({i \in 1..Len(events) : events[i] = "respond-error"}) <= 1

\* the steps of a dispatch that reaches the handler, in the order of the
\* pipeline; the handler's result decides whether an error response is one
ExpectedEvents ==
  <<"start", "identify", "log-context", "bridge">>
    \o (IF buildQueryHeaders(input).err.kind # "nil" THEN <<"respond-error">> ELSE <<>>)
    \o SpanSteps(<<"span-start">>) \o <<"invoke">> \o SpanSteps(<<"span-status">>)
    \o (IF result.err.kind # "nil" THEN <<"respond-error">> ELSE <<>>)
    \o SpanSteps(<<"span-end">>) \o <<"duration">>

\* C19: for a request with a valid correlation ID the steps happen in this
\* order and no other: ID extraction, header bridging, trace extraction and
\* span start, handler invocation, span status, error response when the
\* handler failed, span end, duration log; when the error response is written
\* the span is not yet ended and the duration not yet logged.
C19_EventOrder ==
  ~MissingID =>
    /\ Len(events) <= Len(ExpectedEvents)
    /\ events = SubSeq(ExpectedEvents, 1, Len(events))
    /\ pc = "done" => events = ExpectedEvents
    /\ (pc = "finish" /\ variant = "tracing") => span.state = "started"
    /\ pc = "finish" => DurationLogs = {}

C19_Witness ==
  /\ pc = "done"
  /\ variant = "tracing"
  /\ result.err.kind = "client"
  /\ events = <<"start", "identify", "log-context", "bridge", "span-start", "invoke",
                "span-status", "respond-error", "span-end", "duration">>

\* C20: an ended span has status Ok exactly when the handler returned no
\* error; when the handler returned an error the status is Error and that error
\* is recorded on the span once; every span carries the attribute X-Request-ID
\* with the request's correlation ID; a failed bridge does not change the status.
C20_SpanStatus ==
  /\ span.state = "ended" =>
       /\ span.status = "Ok" <=> result.err.kind = "nil"
       /\ result.err.kind # "nil" =>
            (span.status = "Error" /\ span.recorded = <<ErrorText(result.err)>>)
       /\ result.err.kind = "nil" => span.recorded = <<>>
  /\ span.state # "none" =>
       /\ span.attrs = {<<"X-Request-ID", HeaderGet(input, RequestIDKey)>>}
       /\ HeaderGet(input, RequestIDKey) # EmptyStr
       /\ span.status # "Unset" => pc \in {"finish", "done"}

C20_Witness ==
  /\ span.state = "ended"
  /\ span.status = "Error"
  /\ Len(span.recorded) = 1
  /\ buildQueryHeaders(input).err.kind # "nil"
  /\ span.attrs = {<<"X-Request-ID", <<"id1">>>>}

C20_WitnessOk ==
  /\ span.state = "ended"
  /\ span.status = "Ok"
  /\ buildQueryHeaders(input).err.kind # "nil"
  /\ Len(responses) = 1

\* whether the header key is one of the private namespace
IsSencilloKey(k) == Len(k) >= 1 /\ k[1] = SencilloPrefix[1]

C23_FailedBridgeAddsNothing ==
  bpc = "done" =>
    /\ ~ValidQuery(bsegs) => (berr.kind # "nil" /\ bheaders = bbefore)
    /\ berr.kind # "nil" => bheaders = bbefore
    /\ HeaderGet(bbefore, UrlQueryKey) = EmptyStr => (berr.kind = "nil" /\ bheaders = bbefore)

C23_Witness ==
  /\ bpc = "done"
  /\ Len(bsegs) = 2
  /\ bsegs[1] = PairSegment(<<"b">>, <<"1">>)
  /\ bsegs[2] = BadEscapeSegment
  /\ berr.kind # "nil"
  /\ SencilloKey(<<"b">>) \notin DOMAIN bheaders
  /\ bheaders = bbefore

\* the r.Error calls of a dispatch of the request with headers h whose handler
\* returns res: for the missing id alone, else for the bridge failure and for
\* the handler's error
ResponsesFor(h, res) ==
  IF MsgID(h).err.kind # "nil"
  THEN handleRequestError(BaseLogger, NewClientError(MsgID(h).err, 400, "none")).responses
  ELSE (IF buildQueryHeaders(h).err.kind # "nil"
        THEN handleRequestError(BaseLogger, buildQueryHeaders(h).err).responses ELSE <<>>)
       \o (IF res.err.kind # "nil"
           THEN handleRequestError(BaseLogger, res.err).responses ELSE <<>>)

\* the call with locals d has used nothing but its own request and its own
\* handler result
OwnRequestOnly(d) ==
  LET ownID  == HeaderGet(d.input, RequestIDKey)
      fields == {<<"request_id", ownID>>, <<"path", d.subject>>}
  IN  /\ d.handlerCalls > 0 => (d.handlerCtx.Logger = fields /\ ownID # EmptyStr)
      /\ d.pc \notin {"start", "identify"} =>
           d.reqLogger = (IF ownID = EmptyStr THEN BaseLogger ELSE fields)
      /\ \A i \in 1..Len(d.logs) :
           d.logs[i].attrs = (IF ownID = EmptyStr THEN BaseLogger ELSE fields)
      /\ d.span.state # "none" => d.span.attrs = {<<"X-Request-ID", ownID>>}
      /\ d.pc = "done" =>
           /\ d.responses = ResponsesFor(d.input, d.result)
           /\ d.headers = buildQueryHeaders(d.input).headers
           /\ d.handlerCalls = (IF ownID = EmptyStr THEN 0 ELSE 1)
           /\ d.span.state = "ended" =>
                (d.span.status = "Ok" <=> d.result.err.kind = "nil")

\* C21: however two concurrently dispatched requests interleave, each
\* handler is invoked with the HandlerContext built for its own request (its
\* logger carries that request's correlation ID) and each request's
\* responses, span and logs follow from its own headers and its own handler
\* result alone.
C21_NoCrossTalk ==
  (parked.on /\ parked.mode = "concurrent") =>
    (OwnRequestOnly(Locals) /\ OwnRequestOnly(parked.locals))

C21_Witness ==
  /\ parked.on
  /\ parked.mode = "concurrent"
  /\ pc = "finish"
  /\ parked.locals.pc = "outcome"
  /\ id = <<"id1">>
  /\ parked.locals.id = <<"id2">>
  /\ handlerCtx.Logger = {<<"request_id", <<"id1">>>>, <<"path", <<"svc.add">>>>}
  /\ parked.locals.handlerCtx.Logger = {<<"request_id", <<"id2">>>>, <<"path", <<"svc.", "get">>>>}
  /\ Len(responses) = 2
  /\ parked.locals.responses = <<>>
  /\ parked.locals.result.err.kind = "nil"

(***************************************************************************)
(* HandleNotify alone: the stop channel, the goroutines that send on it    *)
(* (the health functions passed in and the signal watcher handleNotify)    *)
(* and the caller, which receives one message and stops the service.       *)
(* A goroutine is "running" until it reaches its send, "sending" while it  *)
(* is at the send, and "sent" when the send has completed.                 *)
(***************************************************************************)
\* make(chan string, 1)
StopChanCap == 1

SignalWatcher == 0

\* the message a goroutine sends: a health function's own text, or
\* fmt.Sprintf("received signal: %v", sig)
StopMessage(w, sig) ==
  IF w = SignalWatcher THEN <<"received signal: ", sig>> ELSE <<"unhealthy ", ToString(w)>>

InitNotify ==
  /\ ctor = [pc |-> "idle"]
  /\ web = [pc |-> "idle"]
  /\ parked = [on |-> FALSE]
  /\ stats = [pc |-> "idle"]
  /\ DispatchIdle
  /\ BridgeIdle
  /\ CarrierIdle
  /\ \E n \in 0..MaxHealth :
       notify = [pc |-> "recv", chan |-> <<>>,
                 workers |-> [w \in 0..n |-> "running"],
                 msgs |-> [w \in 0..n |-> EmptyStr],
                 order |-> <<>>, logged |-> <<>>, stops |-> 0, returned |-> "none"]

\* a health function decides to report, or a signal reaches the watcher: the
\* goroutine is at its send
ReachSend(w) ==
  /\ notify.pc # "idle"
  /\ w \in DOMAIN notify.workers
  /\ notify.workers[w] = "running"
  /\ \E sig \in {"interrupt", "terminated"} :
       notify' = [notify EXCEPT !.workers[w] = "sending", !.msgs[w] = StopMessage(w, sig)]
  /\ UNCHANGED <<dvars, pvars, bvars, cvars, ctor, web, parked, stats>>

\* stopChan <- msg: completes when the channel has room
Send(w) ==
  /\ notify.pc # "idle"
  /\ w \in DOMAIN notify.workers
  /\ notify.workers[w] = "sending"
  /\ Len(notify.chan) < StopChanCap
  /\ notify' = [notify EXCEPT !.workers[w] = "sent",
                              !.chan = Append(@, notify.msgs[w]),
                              !.order = Append(@, notify.msgs[w])]
  /\ UNCHANGED <<dvars, pvars, bvars, cvars, ctor, web, parked, stats>>

\* slog.Info(<-stopChan)
Receive ==
  /\ notify.pc = "recv"
  /\ Len(notify.chan) > 0
  /\ notify' = [notify EXCEPT !.pc = "stop", !.chan = Tail(@),
                              !.logged = Append(@, Head(notify.chan))]
  /\ UNCHANGED <<dvars, pvars, bvars, cvars, ctor, web, parked, stats>>

\* a caller that goes back to the receive after stopping the service
AfterStop_ReceiveAgain == "recv"

\* return s.Stop(): the caller is done
AfterStop == "returned"

\* s.Stop() and its result, which HandleNotify returns
Stop ==
  /\ notify.pc = "stop"
  /\ \E res \in {"nil", "error"} :
       notify' = [notify EXCEPT !.pc = AfterStop, !.stops = @ + 1, !.returned = res]
  /\ UNCHANGED <<dvars, pvars, bvars, cvars, ctor, web, parked, stats>>

SpecNotify ==
  InitNotify /\ [][(\E w \in 0..MaxHealth : ReachSend(w) \/ Send(w)) \/ Receive \/ Stop]_vars

\* C24: HandleNotify does nothing until a stop message has been sent; it
\* receives the first one sent, then calls Stop exactly once and returns
\* Stop's result; messages sent later cause no second Stop.
C24_StopOnce ==
  notify.pc # "idle" =>
    /\ notify.stops <= 1
    /\ Len(notify.logged) <= 1
    /\ notify.pc = "recv" => (notify.stops = 0 /\ notify.logged = <<>> /\ notify.returned = "none")
    /\ notify.pc \in {"stop", "returned"} =>
         (Len(notify.order) >= 1 /\ notify.logged = <<notify.order[1]>>)
    /\ notify.pc = "stop" => (notify.stops = 0 /\ notify.returned = "none")
    /\ notify.pc = "returned" => (notify.stops = 1 /\ notify.returned \in {"nil", "error"})

C24_Witness ==
  /\ notify.pc = "returned"
  /\ notify.stops = 1
  /\ notify.returned = "error"
  /\ Len(notify.order) = 2
  /\ notify.logged = <<(<<"unhealthy ", "2">>)>>
  /\ notify.workers[SignalWatcher] = "sent"

\* C25: every goroutine that is at its send on the stop channel completes
\* the send: once HandleNotify has returned, no goroutine is at a send that
\* the full channel keeps from completing.
C25_NoSenderBlocked ==
  notify.pc = "returned" =>
    \A w \in DOMAIN notify.workers :
      notify.workers[w] = "sending" => Len(notify.chan) < StopChanCap

\* C26: the message RequestToMsg builds from a request that passed dispatch
\* has the request's headers and payload, and the ErrorHandler it is forwarded
\* to accepts it with the correlation ID of the original request; a message
\* from NewMsgWithID has a non-empty X-Request-ID and is not rejected for a
\* missing ID.
C26_ForwardKeepsID ==
  /\ (parked.on /\ parked.mode = "forward") =>
       /\ parked.msg.Header = parked.locals.headers
       /\ parked.msg.Data = parked.data
       /\ input = parked.msg.Header
       /\ parked.locals.id # EmptyStr
       /\ MsgID(input) = [id |-> parked.locals.id, err |-> NilError]
       /\ pc \notin {"start", "identify"} => id = parked.locals.id
       /\ pc = "bridge" => responses = <<>>
       /\ \A i \in 1..Len(responses) : responses[i] # MissingIDResponse
       /\ pc = "done" => handlerCalls = 1
  /\ HeaderGet(NewMsgWithID, RequestIDKey) # EmptyStr
  /\ sent.origin = "service" =>
       /\ MsgID(input).err.kind = "nil"
       /\ \A i \in 1..Len(responses) : responses[i] # MissingIDResponse
       /\ pc = "done" => handlerCalls = 1

C26_Witness ==
  /\ parked.on
  /\ parked.mode = "forward"
  /\ pc = "done"
  /\ handlerCalls = 1
  /\ id = <<"id2">>
  /\ parked.locals.id = <<"id2">>
  /\ parked.data = <<"{}">>
  /\ subject = <<"testing.things">>
  /\ parked.locals.subject # subject

(***************************************************************************)
(* CodeStats alone: one request served through a StatusRec.  The wrapped   *)
(* handler makes up to MaxCalls calls of WriteHeader and Write and         *)
(* returns.  stats.rec is StatusRec.Status; stats.sent is the status line  *)
(* the underlying http.ResponseWriter has sent, 0 while it has sent none:  *)
(* the first WriteHeader decides it, a Write before any WriteHeader sends  *)
(* 200, and so does the server when the handler returns having sent none.  *)
(***************************************************************************)
\* Status: 200 in the StatusRec literal; http.StatusOK
StatusOK == 200

InitStats ==
  /\ ctor = [pc |-> "idle"]
  /\ web = [pc |-> "idle"]
  /\ parked = [on |-> FALSE]
  /\ notify = [pc |-> "idle"]
  /\ DispatchIdle
  /\ BridgeIdle
  /\ CarrierIdle
  /\ \E method \in {"GET", "POST"}, path \in {"/add", "/health"} :
       stats = [pc |-> "serving", method |-> method, path |-> path, rec |-> StatusOK,
                sent |-> 0, calls |-> 0, wrote |-> FALSE, counter |-> <<>>, hist |-> <<>>]

\* StatusRec.WriteHeader(status)
WriteHeader ==
  /\ stats.pc = "serving"
  /\ stats.calls < MaxCalls
  /\ \E status \in {StatusOK, 404, 500} :
       stats' = [stats EXCEPT !.rec = status,
                              !.sent = IF @ = 0 THEN status ELSE @,
                              !.wrote = TRUE,
                              !.calls = @ + 1]
  /\ UNCHANGED <<dvars, pvars, bvars, cvars, ctor, web, parked, notify>>

\* StatusRec.Write(b)
Write ==
  /\ stats.pc = "serving"
  /\ stats.calls < MaxCalls
  /\ stats' = [stats EXCEPT !.rec = IF @ = 0 THEN StatusOK ELSE @,
                            !.sent = IF @ = 0 THEN StatusOK ELSE @,
                            !.calls = @ + 1]
  /\ UNCHANGED <<dvars, pvars, bvars, cvars, ctor, web, parked, notify>>

\* h.ServeHTTP returns; CodeStats increments the counter and observes the
\* histogram under the labels (rec.Status, r.Method, r.URL.Path)
CodeStats ==
  /\ stats.pc = "serving"
  /\ LET labels == <<stats.rec, stats.method, stats.path>>
     IN  stats' = [stats EXCEPT !.pc = "done",
                                !.sent = IF @ = 0 THEN StatusOK ELSE @,
                                !.counter = Append(@, labels),
                                !.hist = Append(@, labels)]
  /\ UNCHANGED <<dvars, pvars, bvars, cvars, ctor, web, parked, notify>>

SpecStats == InitStats /\ [][WriteHeader \/ Write \/ CodeStats]_vars

\* C27: one counter increment and one histogram observation per request,
\* made when the handler has returned, labelled with the status sent to the
\* client: 200 when the handler never called WriteHeader, else the status
\* the handler wrote, whatever WriteHeader and Write calls it made.
C27_StatusLabelIsSent ==
  /\ stats.pc = "serving" => (stats.counter = <<>> /\ stats.hist = <<>>)
  /\ stats.pc = "done" =>
       /\ Len(stats.counter) = 1
       /\ Len(stats.hist) = 1
       /\ stats.counter[1] = <<stats.sent, stats.method, stats.path>>
       /\ stats.hist[1] = <<stats.sent, stats.method, stats.path>>
       /\ ~stats.wrote => stats.counter[1][1] = StatusOK

====
